---- MODULE Spec2Model ----
(***************************************************************************)
(* Model of world-records/scraper.py (class IWFWorldRecordsScraper).       *)
(*                                                                         *)
(* Texts are sequences of tokens.  A heading text is a sequence of the     *)
(* strings "sp" (one space), "kg", "KG" and words such as "61" or "+".     *)
(* A cards text is a sequence of tokens [kind, val]: the labels "Snatch",  *)
(* "C&J", "Total", a "Record" token (a text matching the regular           *)
(* expression Record:\s*(\d+(?:\.\d+)?)\s*kg, val its number in tenths of  *)
(* a kilogram) and "Text" (anything else).  None is written NoneVal.       *)
(***************************************************************************)
EXTENDS Integers, Sequences, FiniteSets, TLC

VARIABLES
    \* ---- run_pipeline and the collaborators it talks to
    dry_run,              \* self.dry_run
    supabase_configured,  \* self.supabase_url and self.supabase_key both set
    discord_webhook,      \* self.discord_webhook set
    pc,                   \* position of run_pipeline
    cfg,                  \* index into CONFIGURATIONS of the scrape_all loop
    all_records,          \* all_records of scrape_all / records of run_pipeline
    visited,              \* history: what each loop iteration of scrape_all did
    events,               \* history: "fetch" and "sleep" events in order
    store,                \* rows of the table world_records
    prior_snapshot,       \* history: the rows of the table when the run started
    next_id,              \* next id the table assigns to an inserted row
    store_ops,            \* history: requests executed on the table
    csv_file,             \* state of world_records_latest.csv
    existing_records,     \* existing_records of upsert_to_supabase
    upsert_result,        \* value returned by upsert_to_supabase
    notify_calls,         \* history: arguments of send_discord_notification
    posts,                \* number of webhook POSTs that were delivered
    exit_status,          \* value returned by run_pipeline
    \* ---- compare_records on its own
    d_new, d_existing, d_changes, d_pc,
    \* ---- the parse of scrape_page on its own
    p_config, p_doc, p_records, p_pairs, p_pc,
    \* ---- the field extraction of scrape_page on its own
    c_text, c_fields, c_pc

pipeVars == <<dry_run, supabase_configured, discord_webhook, pc, cfg, all_records,
              visited, events, store, prior_snapshot, next_id, store_ops, csv_file,
              existing_records, upsert_result, notify_calls, posts, exit_status>>
diffVars == <<d_new, d_existing, d_changes, d_pc>>
pageVars == <<p_config, p_doc, p_records, p_pairs, p_pc>>
cardVars == <<c_text, c_fields, c_pc>>
vars == <<pipeVars, diffVars, pageVars, cardVars>>

\* ---------------------------------------------------------------- bounds
MaxPrior == 1      \* rows in the table before the run
MaxNew == 2        \* length of new_records given to compare_records alone
MaxExisting == 2   \* length of existing_records given to compare_records alone
MaxBlocks == 3     \* sibling blocks of a document given to the parse alone
MaxTokens == 3     \* tokens of an arbitrary cards text

\* ------------------------------------------------------------- constants
NoneVal == -1

CONFIGURATIONS ==
    << [ranking_curprog |-> "current", ranking_agegroup |-> "Senior", ranking_gender |-> "m"],
       [ranking_curprog |-> "current", ranking_agegroup |-> "Senior", ranking_gender |-> "w"],
       [ranking_curprog |-> "current", ranking_agegroup |-> "Junior", ranking_gender |-> "w"],
       [ranking_curprog |-> "current", ranking_agegroup |-> "Junior", ranking_gender |-> "m"],
       [ranking_curprog |-> "current", ranking_agegroup |-> "Youth", ranking_gender |-> "m"],
       [ranking_curprog |-> "current", ranking_agegroup |-> "Youth", ranking_gender |-> "w"] >>

Range(s) == {s[i] : i \in 1..Len(s)}

SeqsUpTo(S, n) == UNION {[1..k -> S] : k \in 0..n}

\* ------------------------------------------------- scrape_page: headings
Lower(tok) == IF tok = "KG" THEN "kg" ELSE tok

RECURSIVE LStrip(_)
LStrip(s) == IF s # <<>> /\ Head(s) = "sp" THEN LStrip(Tail(s)) ELSE s

RECURSIVE RStrip(_)
RStrip(s) ==
    IF s # <<>> /\ s[Len(s)] = "sp" THEN RStrip(SubSeq(s, 1, Len(s) - 1)) ELSE s

Strip(s) == RStrip(LStrip(s))

\* str.replace(' kg', 'kg'): every occurrence, left to right
RECURSIVE ReplaceSpKg(_)
ReplaceSpKg(s) ==
    IF s = <<>> THEN <<>>
    ELSE IF Len(s) >= 2 /\ s[1] = "sp" /\ s[2] = "kg"
         THEN <<"kg">> \o ReplaceSpKg(SubSeq(s, 3, Len(s)))
         ELSE <<Head(s)>> \o ReplaceSpKg(Tail(s))

parse_weight_class(heading_text) == ReplaceSpKg(Strip(heading_text))

\* 'kg' in weight_class_text.lower()
ContainsKg(text) == \E i \in 1..Len(text) : Lower(text[i]) = "kg"

\* ----------------------------------------- scrape_page: field extraction
Tok(k, v) == [kind |-> k, val |-> v]

Contains(text, label) == \E i \in 1..Len(text) : text[i].kind = label

IndexOf(text, label) ==
    IF Contains(text, label)
    THEN CHOOSE i \in 1..Len(text) :
            /\ text[i].kind = label
            /\ \A j \in 1..(i - 1) : text[j].kind # label
    ELSE 0

\* text.split(label)[0]
SplitPart0(text, label) ==
    IF Contains(text, label) THEN SubSeq(text, 1, IndexOf(text, label) - 1) ELSE text

\* text.split(label)[1], taken only where the label is in the text
SplitPart1(text, label) ==
    SplitPart0(SubSeq(text, IndexOf(text, label) + 1, Len(text)), label)

snatch_section(cards_text) ==
    IF Contains(cards_text, "C&J") THEN SplitPart0(cards_text, "C&J") ELSE <<>>

cj_section(cards_text) ==
    IF Contains(cards_text, "C&J") /\ Contains(cards_text, "Total")
    THEN SplitPart0(SplitPart1(cards_text, "C&J"), "Total")
    ELSE <<>>

total_section(cards_text) ==
    IF Contains(cards_text, "Total") THEN SplitPart1(cards_text, "Total") ELSE <<>>

\* int(float(number)) of a number written in tenths
IntOfFloat(tenths) == tenths \div 10

\* re.search(...) on a section, then int(float(match.group(1))); None without a match
RecordSearch(section) ==
    IF Contains(section, "Record")
    THEN IntOfFloat(section[IndexOf(section, "Record")].val)
    ELSE NoneVal

ExtractFields(cards_text) ==
    [snatch_record |-> RecordSearch(snatch_section(cards_text)),
     cj_record |-> RecordSearch(cj_section(cards_text)),
     total_record |-> RecordSearch(total_section(cards_text))]

\* ------------------------------------------------ scrape_page: the parse
TitleBlock(h2, heading) == [kind |-> "title", h2 |-> h2, heading |-> heading, text |-> <<>>]
CardsBlock(text) == [kind |-> "cards", h2 |-> FALSE, heading |-> <<>>, text |-> text]
OtherBlock == [kind |-> "other", h2 |-> FALSE, heading |-> <<>>, text |-> <<>>]

\* title_div.find_next_sibling('div', class_='cards'): 0 stands for None
FindNextSiblingCards(doc, i) ==
    IF \E j \in (i + 1)..Len(doc) : doc[j].kind = "cards"
    THEN CHOOSE j \in (i + 1)..Len(doc) :
            /\ doc[j].kind = "cards"
            /\ \A k \in (i + 1)..(j - 1) : doc[k].kind # "cards"
    ELSE 0

\* the title div at i passes the three 'continue' tests of the loop
YieldsRecord(doc, i) ==
    /\ doc[i].kind = "title"
    /\ doc[i].h2
    /\ ContainsKg(Strip(doc[i].heading))
    /\ FindNextSiblingCards(doc, i) # 0

GenderOf(config) == IF config.ranking_gender = "m" THEN "Men" ELSE "Women"

RecordAt(config, doc, i) ==
    LET f == ExtractFields(doc[FindNextSiblingCards(doc, i)].text)
    IN [age_category |-> config.ranking_agegroup,
        gender |-> GenderOf(config),
        weight_class |-> parse_weight_class(Strip(doc[i].heading)),
        snatch_record |-> f.snatch_record,
        cj_record |-> f.cj_record,
        total_record |-> f.total_record]

RECURSIVE ParseFrom(_, _, _, _)
ParseFrom(config, doc, i, records) ==
    IF i > Len(doc) THEN records
    ELSE IF YieldsRecord(doc, i)
         THEN ParseFrom(config, doc, i + 1, Append(records, RecordAt(config, doc, i)))
         ELSE ParseFrom(config, doc, i + 1, records)

\* scrape_page after fetch_page returned the document
ParsePage(config, doc) == ParseFrom(config, doc, 1, <<>>)

\* the (title index, cards index) pairs the loop of scrape_page used, in order
RECURSIVE PairsFrom(_, _, _)
PairsFrom(doc, i, pairs) ==
    IF i > Len(doc) THEN pairs
    ELSE IF YieldsRecord(doc, i)
         THEN PairsFrom(doc, i + 1, Append(pairs, <<i, FindNextSiblingCards(doc, i)>>))
         ELSE PairsFrom(doc, i + 1, pairs)

\* --------------------------------------------------------- compare_records
make_key(record) == <<record.age_category, record.gender, record.weight_class>>

KeysOf(records) == {make_key(records[i]) : i \in 1..Len(records)}

\* {make_key(r): r for r in existing_records}: a later record replaces an earlier one
ExistingMap(existing) ==
    [k \in KeysOf(existing) |->
        existing[CHOOSE i \in 1..Len(existing) :
                    /\ make_key(existing[i]) = k
                    /\ \A j \in (i + 1)..Len(existing) : make_key(existing[j]) # k]]

ValuesChangedTotalIgnored(existing, new_record) ==
    \/ existing.snatch_record # new_record.snatch_record
    \/ existing.cj_record # new_record.cj_record

ValuesChanged(existing, new_record) ==
    \/ existing.snatch_record # new_record.snatch_record
    \/ existing.cj_record # new_record.cj_record
    \/ existing.total_record # new_record.total_record

EmptyChanges == [new |-> <<>>, modified |-> <<>>, unchanged |-> <<>>]

RECURSIVE CompareFrom(_, _, _, _)
CompareFrom(new_records, existing_map, i, changes) ==
    IF i > Len(new_records) THEN changes
    ELSE LET new_record == new_records[i]
             key == make_key(new_record)
         IN IF key \notin DOMAIN existing_map
            THEN CompareFrom(new_records, existing_map, i + 1,
                    [changes EXCEPT !.new = Append(@, new_record)])
            ELSE IF ValuesChanged(existing_map[key], new_record)
                 THEN CompareFrom(new_records, existing_map, i + 1,
                        [changes EXCEPT !.modified =
                            Append(@, [record |-> new_record, old |-> existing_map[key]])])
                 ELSE CompareFrom(new_records, existing_map, i + 1,
                        [changes EXCEPT !.unchanged = Append(@, new_record)])

compare_records(new_records, existing) ==
    CompareFrom(new_records, ExistingMap(existing), 1, EmptyChanges)

\* ------------------------------------------------------------ idle values
NoResult == [status |-> "none"]
NoFields == [snatch_record |-> NoneVal, cj_record |-> NoneVal, total_record |-> NoneVal]

PipeIdle ==
    /\ dry_run = FALSE /\ supabase_configured = FALSE /\ discord_webhook = FALSE
    /\ pc = "idle" /\ cfg = 1 /\ all_records = <<>> /\ visited = <<>> /\ events = <<>>
    /\ store = <<>> /\ prior_snapshot = <<>> /\ next_id = 1 /\ store_ops = <<>> /\ csv_file = "untouched"
    /\ existing_records = <<>> /\ upsert_result = NoResult /\ notify_calls = <<>>
    /\ posts = 0 /\ exit_status = NoneVal

DiffIdle == d_new = <<>> /\ d_existing = <<>> /\ d_changes = EmptyChanges /\ d_pc = "idle"

PageIdle ==
    /\ p_config = CONFIGURATIONS[1] /\ p_doc = <<>> /\ p_records = <<>>
    /\ p_pairs = <<>> /\ p_pc = "idle"

CardIdle == c_text = <<>> /\ c_fields = NoFields /\ c_pc = "idle"

\* ================================================== field extraction alone
SnatchLabel == Tok("Snatch", 0)
CJLabel == Tok("C&J", 0)
TotalLabel == Tok("Total", 0)
RecordTok(tenths) == Tok("Record", tenths)
TextTok == Tok("Text", 0)

CardTokens == {SnatchLabel, CJLabel, TotalLabel, RecordTok(880), RecordTok(1725), TextTok}

\* a label that is absent, present without a value, or present with its value
SlotChoices == {"absent", "label", "value"}
SlotText(label, choice, kg) ==
    IF choice = "absent" THEN <<>>
    ELSE IF choice = "label" THEN <<label>>
    ELSE <<label, RecordTok(kg * 10)>>
SlotField(choice, kg) == IF choice = "value" THEN kg ELSE NoneVal

\* the texts built from Snatch, C&J, Total in that order, with what each field is
LabelledCases ==
    {[text |-> SlotText(SnatchLabel, s, 88) \o SlotText(CJLabel, c, 110)
                 \o SlotText(TotalLabel, t, 198),
      fields |-> [snatch_record |-> SlotField(s, 88),
                  cj_record |-> SlotField(c, 110),
                  total_record |-> SlotField(t, 198)]]
        : s \in SlotChoices, c \in SlotChoices, t \in SlotChoices}

CardsTexts == {x.text : x \in LabelledCases} \cup SeqsUpTo(CardTokens, MaxTokens)

CardsInit ==
    /\ c_text \in CardsTexts /\ c_fields = NoFields /\ c_pc = "start"
    /\ PipeIdle /\ DiffIdle /\ PageIdle

\* lines 128-159 of scrape_page applied to one cards text
ExtractStep ==
    /\ c_pc = "start"
    /\ c_fields' = ExtractFields(c_text)
    /\ c_pc' = "done"
    /\ UNCHANGED <<c_text, pipeVars, diffVars, pageVars>>

CardsNext == ExtractStep
CardsSpec == CardsInit /\ [][CardsNext]_vars

\* ================================================== the page parse alone
H61 == <<"61", "sp", "kg">>
HPlus110 == <<"+110", "sp", "kg">>
HNoUnit == <<"World", "sp", "Records">>
FullCards ==
    <<SnatchLabel, RecordTok(1410), TextTok, CJLabel, RecordTok(1720),
      TotalLabel, RecordTok(3130)>>

PageBlocks ==
    {TitleBlock(TRUE, H61), TitleBlock(TRUE, HPlus110), TitleBlock(TRUE, HNoUnit),
     TitleBlock(FALSE, <<>>), CardsBlock(FullCards), OtherBlock}

PageInit ==
    /\ p_config \in Range(CONFIGURATIONS)
    /\ p_doc \in SeqsUpTo(PageBlocks, MaxBlocks)
    /\ p_records = <<>> /\ p_pairs = <<>> /\ p_pc = "start"
    /\ PipeIdle /\ DiffIdle /\ CardIdle

\* lines 99-174 of scrape_page applied to one fetched document
ParseStep ==
    /\ p_pc = "start"
    /\ p_records' = ParsePage(p_config, p_doc)
    /\ p_pairs' = PairsFrom(p_doc, 1, <<>>)
    /\ p_pc' = "done"
    /\ UNCHANGED <<p_config, p_doc, pipeVars, diffVars, cardVars>>

PageNext == ParseStep
PageSpec == PageInit /\ [][PageNext]_vars

\* ================================================== compare_records alone
Rec(age, gender, wc, s, c, t) ==
    [age_category |-> age, gender |-> gender, weight_class |-> wc,
     snatch_record |-> s, cj_record |-> c, total_record |-> t]

DiffRecords ==
    {Rec("Senior", "Men", <<"61", "kg">>, 141, 172, 313),
     Rec("Senior", "Men", <<"61", "kg">>, 141, 172, 310),
     Rec("Senior", "Men", <<"61", "kg">>, NoneVal, 172, 313),
     Rec("Senior", "Men", <<"61", "kg">>, 141, 170, 313),
     Rec("Senior", "Women", <<"61", "kg">>, NoneVal, NoneVal, NoneVal),
     Rec("Senior", "Women", <<"61", "kg">>, 0, NoneVal, NoneVal)}

DiffInit ==
    /\ d_new \in SeqsUpTo(DiffRecords, MaxNew)
    /\ d_existing \in SeqsUpTo(DiffRecords, MaxExisting)
    /\ d_changes = EmptyChanges /\ d_pc = "start"
    /\ PipeIdle /\ PageIdle /\ CardIdle

CompareStep ==
    /\ d_pc = "start"
    /\ d_changes' = compare_records(d_new, d_existing)
    /\ d_pc' = "done"
    /\ UNCHANGED <<d_new, d_existing, pipeVars, pageVars, cardVars>>

DiffNext == CompareStep
DiffSpec == DiffInit /\ [][DiffNext]_vars

\* ========================================================== run_pipeline
NumConfigs == Len(CONFIGURATIONS)

\* the documents the source pages serve in the pipeline
PageOne == <<TitleBlock(TRUE, H61), CardsBlock(FullCards)>>
PageRepeat ==
    <<TitleBlock(TRUE, H61), CardsBlock(FullCards),
      TitleBlock(TRUE, H61), CardsBlock(<<SnatchLabel, RecordTok(1415), CJLabel>>)>>
PipelinePages == {PageOne, PageRepeat}

\* the rows the table may hold before the run
PriorRecords == {Rec("Senior", "Men", <<"61", "kg">>, 141, 172, 310)}

\* the table gives each inserted row the next id of its sequence
WithIds(records, first) ==
    [i \in 1..Len(records) |-> [id |-> first + i - 1] @@ records[i]]

Init ==
    /\ dry_run \in BOOLEAN
    /\ supabase_configured \in BOOLEAN
    /\ discord_webhook \in BOOLEAN
    /\ \E prior \in SeqsUpTo(PriorRecords, MaxPrior) :
          /\ store = WithIds(prior, 1)
          /\ prior_snapshot = WithIds(prior, 1)
          /\ next_id = Len(prior) + 1
    /\ pc = "scrape" /\ cfg = 1 /\ all_records = <<>> /\ visited = <<>> /\ events = <<>>
    /\ store_ops = <<>> /\ csv_file = "untouched" /\ existing_records = <<>>
    /\ upsert_result = NoResult /\ notify_calls = <<>> /\ posts = 0
    /\ exit_status = NoneVal
    /\ DiffIdle /\ PageIdle /\ CardIdle

unitVars == <<diffVars, pageVars, cardVars>>
envVars == <<dry_run, supabase_configured, discord_webhook, prior_snapshot>>

\* ---- scrape_all: one iteration of the loop over CONFIGURATIONS
AfterConfig == IF cfg = NumConfigs THEN "scraped" ELSE "scrape"

\* scrape_page(CONFIGURATIONS[c]) when fetch_page returns doc, for every c and doc
ParsedPages ==
    [c \in 1..NumConfigs |->
        [doc \in PipelinePages |-> ParsePage(CONFIGURATIONS[c], doc)]]

\* scrape_page returned: extend, then sleep
ScrapeOk ==
    /\ pc = "scrape"
    /\ \E doc \in PipelinePages :
          /\ all_records' = all_records \o ParsedPages[cfg][doc]
          /\ visited' = Append(visited, [config |-> cfg, failed |-> FALSE, doc |-> doc])
    /\ events' = events \o <<"fetch", "sleep">>
    /\ cfg' = cfg + 1
    /\ pc' = AfterConfig
    /\ UNCHANGED <<envVars, store, next_id, store_ops, csv_file, existing_records,
                   upsert_result, notify_calls, posts, exit_status, unitVars>>

\* a mutant of ScrapeFails: the exception ends the loop
ScrapeFailsAborts ==
    /\ pc = "scrape"
    /\ visited' = Append(visited, [config |-> cfg, failed |-> TRUE, doc |-> <<>>])
    /\ events' = Append(events, "fetch")
    /\ cfg' = cfg + 1
    /\ pc' = "scraped"
    /\ UNCHANGED <<envVars, all_records, store, next_id, store_ops, csv_file,
                   existing_records, upsert_result, notify_calls, posts, exit_status,
                   unitVars>>

\* scrape_page raised (fetch_page raised): the except branch, then continue
ScrapeFails ==
    /\ pc = "scrape"
    /\ visited' = Append(visited, [config |-> cfg, failed |-> TRUE, doc |-> <<>>])
    /\ events' = Append(events, "fetch")
    /\ cfg' = cfg + 1
    /\ pc' = AfterConfig
    /\ UNCHANGED <<envVars, all_records, store, next_id, store_ops, csv_file,
                   existing_records, upsert_result, notify_calls, posts, exit_status,
                   unitVars>>

\* ---- run_pipeline, step 1: the test of the aggregate
\* a mutant of CheckRecords: the empty aggregate is not tested
CheckRecordsNoEmptyTest ==
    /\ pc = "scraped"
    /\ pc' = IF dry_run THEN "upsert" ELSE "csv"
    /\ UNCHANGED <<envVars, cfg, all_records, visited, events, store, next_id,
                   store_ops, csv_file, existing_records, upsert_result, notify_calls,
                   posts, exit_status, unitVars>>

CheckRecords ==
    /\ pc = "scraped"
    /\ IF all_records = <<>>
       THEN pc' = "done" /\ exit_status' = 1
       ELSE pc' = (IF dry_run THEN "upsert" ELSE "csv") /\ UNCHANGED exit_status
    /\ UNCHANGED <<envVars, cfg, all_records, visited, events, store, next_id,
                   store_ops, csv_file, existing_records, upsert_result, notify_calls,
                   posts, unitVars>>

\* ---- run_pipeline, step 2 of commit mode: save_to_csv
SaveCsvOk ==
    /\ pc = "csv"
    /\ csv_file' = "written"
    /\ pc' = "upsert"
    /\ UNCHANGED <<envVars, cfg, all_records, visited, events, store, next_id,
                   store_ops, existing_records, upsert_result, notify_calls, posts,
                   exit_status, unitVars>>

SaveCsvFails ==
    /\ pc = "csv"
    /\ csv_file' = "failed"
    /\ pc' = "upsert"
    /\ UNCHANGED <<envVars, cfg, all_records, visited, events, store, next_id,
                   store_ops, existing_records, upsert_result, notify_calls, posts,
                   exit_status, unitVars>>

\* ---- upsert_to_supabase
AfterUpsert == IF dry_run THEN "summary" ELSE "notify"

UpsertSkipped ==
    /\ pc = "upsert"
    /\ ~supabase_configured
    /\ upsert_result' =
          [status |-> "skipped", message |-> "Supabase credentials not configured"]
    /\ pc' = AfterUpsert
    /\ UNCHANGED <<envVars, cfg, all_records, visited, events, store, next_id,
                   store_ops, csv_file, existing_records, notify_calls, posts,
                   exit_status, unitVars>>

\* the import of supabase or create_client raises
UpsertClientError ==
    /\ pc = "upsert"
    /\ supabase_configured
    /\ \E msg \in {"supabase-py library not installed", "Supabase error"} :
          upsert_result' = [status |-> "error", message |-> msg]
    /\ pc' = AfterUpsert
    /\ UNCHANGED <<envVars, cfg, all_records, visited, events, store, next_id,
                   store_ops, csv_file, existing_records, notify_calls, posts,
                   exit_status, unitVars>>

\* a mutant of DryRunReturns: the dry-run test is missing
DryRunIgnored == FALSE

\* if self.dry_run: ... return
DryRunReturns == dry_run

DryRunResult(changes) ==
    [status |-> "dry_run", records_upserted |-> 0, message |-> "DRY RUN: Would upsert",
     changes |-> changes]

\* after get_existing_records: compare_records, then the dry-run return
CompareAndBranch(existing) ==
    /\ existing_records' = existing
    /\ store_ops' = Append(store_ops, "select")
    /\ IF DryRunReturns
       THEN /\ upsert_result' = DryRunResult(compare_records(all_records, existing))
            /\ pc' = AfterUpsert
       ELSE /\ UNCHANGED upsert_result
            /\ pc' = "delete"
    /\ UNCHANGED <<envVars, cfg, all_records, visited, events, store, next_id,
                   csv_file, notify_calls, posts, exit_status, unitVars>>

\* get_existing_records read the table
ReadExistingOk ==
    /\ pc = "upsert"
    /\ supabase_configured
    /\ CompareAndBranch(store)

\* get_existing_records caught an exception and returned []
ReadExistingFails ==
    /\ pc = "upsert"
    /\ supabase_configured
    /\ CompareAndBranch(<<>>)

\* a mutant of DeleteOk: the rows of the table are kept
DeleteKeepsRows ==
    /\ pc = "delete"
    /\ store_ops' = Append(store_ops, "delete")
    /\ pc' = "insert"
    /\ UNCHANGED <<envVars, cfg, all_records, visited, events, store, next_id,
                   csv_file, existing_records, upsert_result, notify_calls, posts,
                   exit_status, unitVars>>

\* client.table(table_name).delete().neq('id', 0).execute()
DeleteOk ==
    /\ pc = "delete"
    /\ store' = SelectSeq(store, LAMBDA row : ~(row.id # 0))
    /\ store_ops' = Append(store_ops, "delete")
    /\ pc' = "insert"
    /\ UNCHANGED <<envVars, cfg, all_records, visited, events, next_id, csv_file,
                   existing_records, upsert_result, notify_calls, posts, exit_status,
                   unitVars>>

ErrorResult == [status |-> "error", message |-> "Supabase error"]

DeleteFails ==
    /\ pc = "delete"
    /\ store_ops' = Append(store_ops, "delete")
    /\ upsert_result' = ErrorResult
    /\ pc' = AfterUpsert
    /\ UNCHANGED <<envVars, cfg, all_records, visited, events, store, next_id,
                   csv_file, existing_records, notify_calls, posts, exit_status,
                   unitVars>>

\* client.table(table_name).insert(records).execute(), then the success result
InsertOk ==
    /\ pc = "insert"
    /\ store' = store \o WithIds(all_records, next_id)
    /\ next_id' = next_id + Len(all_records)
    /\ store_ops' = Append(store_ops, "insert")
    /\ upsert_result' =
          [status |-> "success", records_upserted |-> Len(all_records),
           message |-> "Successfully upserted",
           changes |-> compare_records(all_records, existing_records)]
    /\ pc' = AfterUpsert
    /\ UNCHANGED <<envVars, cfg, all_records, visited, events, csv_file,
                   existing_records, notify_calls, posts, exit_status, unitVars>>

\* a mutant of InsertFails: the exception leaves run_pipeline
InsertFailsAborts ==
    /\ pc = "insert"
    /\ store_ops' = Append(store_ops, "insert")
    /\ upsert_result' = ErrorResult
    /\ pc' = "done"
    /\ exit_status' = 1
    /\ UNCHANGED <<envVars, cfg, all_records, visited, events, store, next_id,
                   csv_file, existing_records, notify_calls, posts, unitVars>>

InsertFails ==
    /\ pc = "insert"
    /\ store_ops' = Append(store_ops, "insert")
    /\ upsert_result' = ErrorResult
    /\ pc' = AfterUpsert
    /\ UNCHANGED <<envVars, cfg, all_records, visited, events, store, next_id,
                   csv_file, existing_records, notify_calls, posts, exit_status,
                   unitVars>>

\* ---- run_pipeline, step 4 of commit mode: send_discord_notification
NotifyCall ==
    /\ pc = "notify"
    /\ notify_calls' =
          Append(notify_calls,
                 [records_count |-> Len(all_records), upsert_result |-> upsert_result])
    /\ pc' = "summary"
    /\ UNCHANGED <<envVars, cfg, all_records, visited, events, store, next_id,
                   store_ops, csv_file, existing_records, upsert_result, exit_status,
                   unitVars>>

\* no webhook, or dry run: return False without a request
NotifyNotSent ==
    /\ NotifyCall
    /\ ~discord_webhook \/ dry_run
    /\ UNCHANGED posts

\* requests.post returned and raise_for_status passed
NotifyDelivered ==
    /\ NotifyCall
    /\ discord_webhook /\ ~dry_run
    /\ posts' = posts + 1

\* requests.post or raise_for_status raised: caught, return False
NotifyFails ==
    /\ NotifyCall
    /\ discord_webhook /\ ~dry_run
    /\ UNCHANGED posts

\* ---- run_pipeline: the summary and return 0
Complete ==
    /\ pc = "summary"
    /\ exit_status' = 0
    /\ pc' = "done"
    /\ UNCHANGED <<envVars, cfg, all_records, visited, events, store, next_id,
                   store_ops, csv_file, existing_records, upsert_result, notify_calls,
                   posts, unitVars>>

Next ==
    \/ ScrapeOk \/ ScrapeFails \/ CheckRecords
    \/ SaveCsvOk \/ SaveCsvFails
    \/ UpsertSkipped \/ UpsertClientError \/ ReadExistingOk \/ ReadExistingFails
    \/ DeleteOk \/ DeleteFails \/ InsertOk \/ InsertFails
    \/ NotifyNotSent \/ NotifyDelivered \/ NotifyFails
    \/ Complete

Spec == Init /\ [][Next]_vars

\* every call of run_pipeline's collaborators returns or raises: the run goes on
FairSpec == Spec /\ WF_vars(Next)

\* ===================================================== claims: compare_records
SameValues(p, r) ==
    /\ p.snatch_record = r.snatch_record
    /\ p.cj_record = r.cj_record
    /\ p.total_record = r.total_record

UniqueKeys(records) ==
    \A i, j \in 1..Len(records) : make_key(records[i]) = make_key(records[j]) => i = j

RECURSIVE IsSubSeq(_, _)
IsSubSeq(s, t) ==
    IF s = <<>> THEN TRUE
    ELSE IF t = <<>> THEN FALSE
    ELSE IF Head(s) = Head(t) THEN IsSubSeq(Tail(s), Tail(t))
    ELSE IsSubSeq(s, Tail(t))

ModifiedRecords(changes) == [i \in 1..Len(changes.modified) |-> changes.modified[i].record]

\* C5: compare_records puts every record of the new snapshot in exactly one of
\* new, modified, unchanged (the lengths sum to the length of the new snapshot);
\* new holds exactly the records whose key is absent from prior; a modified entry
\* is paired with a prior record of its key from which one of the three values
\* differs (None equal to None, None different from any value); an unchanged
\* record has a prior record of its key with the same three values; where the
\* prior keys are unique the three lists are exactly the new snapshot filtered
\* by those tests; each list keeps the order of the new snapshot, and a prior
\* record whose key is not in the new snapshot is in no list.
C5_CompareClassifies ==
    d_pc = "done" =>
        LET N == d_new
            P == d_existing
            ch == d_changes
            HasKey(r) == \E p \in Range(P) : make_key(p) = make_key(r)
            PriorOf(r) == CHOOSE p \in Range(P) : make_key(p) = make_key(r)
            mods == ModifiedRecords(ch)
        IN /\ Len(ch.new) + Len(ch.modified) + Len(ch.unchanged) = Len(N)
           /\ Range(ch.new) \cap Range(mods) = {}
           /\ Range(ch.new) \cap Range(ch.unchanged) = {}
           /\ Range(mods) \cap Range(ch.unchanged) = {}
           /\ ch.new = SelectSeq(N, LAMBDA r : ~HasKey(r))
           /\ IsSubSeq(mods, N) /\ IsSubSeq(ch.unchanged, N)
           /\ \A m \in Range(ch.modified) :
                /\ m.old \in Range(P)
                /\ make_key(m.old) = make_key(m.record)
                /\ ~SameValues(m.old, m.record)
           /\ \A u \in Range(ch.unchanged) :
                \E p \in Range(P) : make_key(p) = make_key(u) /\ SameValues(p, u)
           /\ UniqueKeys(P) =>
                /\ mods = SelectSeq(N, LAMBDA r : HasKey(r) /\ ~SameValues(PriorOf(r), r))
                /\ ch.unchanged =
                      SelectSeq(N, LAMBDA r : HasKey(r) /\ SameValues(PriorOf(r), r))
                /\ \A m \in Range(ch.modified) : m.old = PriorOf(m.record)
           /\ \A p \in Range(P) :
                make_key(p) \notin KeysOf(N) =>
                    /\ p \notin Range(ch.new) \cup Range(mods) \cup Range(ch.unchanged)
                    /\ \A m \in Range(ch.modified) : m.old # p

\* a comparison that found a new record, a record modified only in its total,
\* and, in another run, one unchanged with a None value on both sides
C5_Witness ==
    /\ d_pc = "done"
    /\ d_changes.new # <<>>
    /\ \E m \in Range(d_changes.modified) :
          /\ m.old.total_record # m.record.total_record
          /\ m.old.snatch_record = m.record.snatch_record
          /\ m.old.cj_record = m.record.cj_record

\* ===================================================== claims: the page parse
Qualifies(doc, i) ==
    doc[i].kind = "title" /\ doc[i].h2 /\ \E k \in 1..Len(doc[i].heading) :
                                            doc[i].heading[k] \in {"kg", "KG"}

\* the content block of the heading at i: the first cards block after it, unless
\* another qualifying heading comes before that block; 0 when it has none
OwnCards(doc, i) ==
    IF \E j \in (i + 1)..Len(doc) :
          /\ doc[j].kind = "cards"
          /\ \A k \in (i + 1)..(j - 1) : doc[k].kind # "cards" /\ ~Qualifies(doc, k)
    THEN CHOOSE j \in (i + 1)..Len(doc) :
          /\ doc[j].kind = "cards"
          /\ \A k \in (i + 1)..(j - 1) : doc[k].kind # "cards" /\ ~Qualifies(doc, k)
    ELSE 0

\* C7: a qualifying heading is paired only with its own content block (the cards
\* block that follows it before any other qualifying heading), a heading without
\* a content block of its own contributes no record, and no content block is
\* attributed to more than one heading.
C7_HeadingPairedWithOwnBlock ==
    p_pc = "done" =>
        /\ \A n \in 1..Len(p_pairs) : p_pairs[n][2] = OwnCards(p_doc, p_pairs[n][1])
        /\ \A n, m \in 1..Len(p_pairs) : p_pairs[n][2] = p_pairs[m][2] => n = m
        /\ Len(p_records) =
              Cardinality({i \in 1..Len(p_doc) : Qualifies(p_doc, i) /\ OwnCards(p_doc, i) # 0})

\* ============================================== claims: field extraction
\* C8: on a cards text built from the labels Snatch, C&J, Total (each present or
\* absent) with an optional Record value after each present label, each field is
\* extracted independently: it is None only when its own label or value is
\* missing ("Snatch Record: 88 kg" alone gives snatch_record = 88).
C8_FieldsIndependent ==
    c_pc = "done" =>
        \A x \in LabelledCases : c_text = x.text => c_fields = x.fields

\* ===================================================== claims: scrape_all
\* what the visited configurations contribute, in the order they were visited
RECURSIVE ExpectedRecords(_)
ExpectedRecords(v) ==
    IF v = <<>> THEN <<>>
    ELSE LET last == v[Len(v)]
         IN ExpectedRecords(SubSeq(v, 1, Len(v) - 1))
              \o (IF last.failed THEN <<>>
                  ELSE ParsePage(CONFIGURATIONS[last.config], last.doc))

\* C1: whatever subset of the six configurations fails, scrape_all visits the
\* six configurations in the order of CONFIGURATIONS, never stops early, and its
\* result is the concatenation, in that order, of the records of the
\* configurations that did not fail (a failed one contributes nothing).
C1_BatchIsolatesFailures ==
    /\ \A i \in 1..Len(visited) : visited[i].config = i
    /\ pc \in {"scrape", "scraped"} => all_records = ExpectedRecords(visited)
    /\ pc = "scrape" => cfg = Len(visited) + 1 /\ cfg <= NumConfigs
    /\ pc # "scrape" => Len(visited) = NumConfigs

\* the batch is over, a configuration failed and a later one gave records
C1_Witness ==
    /\ pc = "scraped"
    /\ \E i, j \in 1..Len(visited) :
          i < j /\ visited[i].failed /\ ~visited[j].failed
    /\ all_records # <<>>

\* C6: the snapshot returned by scrape_all holds no two records with the same
\* identity key (age_category, gender, weight_class).
C6_UniqueKeys == pc # "scrape" => UniqueKeys(all_records)

\* C9: the trace of events never holds two fetch events with no delay event
\* between them.
C9_DelayBetweenFetches ==
    \A i \in 1..(Len(events) - 1) : ~(events[i] = "fetch" /\ events[i + 1] = "fetch")

\* ==================================================== claims: run_pipeline
\* C2: run_pipeline returns 1 exactly when the aggregate extraction is empty, and
\* 0 in every other run, whatever fails in the export, the store or the
\* notification, in dry-run and in commit mode.
C2_ExitStatus ==
    /\ exit_status \in {NoneVal, 0, 1}
    /\ exit_status # NoneVal <=> pc = "done"
    /\ pc = "done" => (exit_status = 1 <=> all_records = <<>>)

\* a commit run that returned 0 although a configuration failed, the export
\* failed, the store reported an error and the notification was not delivered
C2_Witness ==
    /\ pc = "done" /\ exit_status = 0 /\ ~dry_run
    /\ \E i \in 1..Len(visited) : visited[i].failed
    /\ csv_file = "failed"
    /\ upsert_result.status = "error"
    /\ discord_webhook /\ notify_calls # <<>> /\ posts = 0

\* C3: in dry-run mode, in every state of the run, the export is not written,
\* delete and insert are not invoked on the store, the persisted snapshot is the
\* prior snapshot, and no notification is sent.
C3_DryRunNoEffects ==
    dry_run =>
        /\ csv_file = "untouched"
        /\ "delete" \notin Range(store_ops)
        /\ "insert" \notin Range(store_ops)
        /\ store = prior_snapshot
        /\ posts = 0

\* a finished dry run with credentials and webhook configured that compared the
\* new snapshot with a prior snapshot that is not empty
C3_Witness ==
    /\ dry_run /\ pc = "done" /\ exit_status = 0
    /\ supabase_configured /\ discord_webhook
    /\ upsert_result.status = "dry_run"
    /\ prior_snapshot # <<>>
    /\ upsert_result.changes.modified # <<>>

ExportFinished == csv_file \in {"written", "failed"}
PersistenceFinished == upsert_result.status \in {"success", "skipped", "error"}

\* C4: in commit mode a run that extracted a record reaches the notification
\* step, exactly once, after the export step and the persistence step finished,
\* with a result descriptor whose status is success, skipped or error.
C4_NotificationReached ==
    /\ [](Len(notify_calls) <= 1)
    /\ [](notify_calls # <<>> =>
            /\ ~dry_run /\ all_records # <<>>
            /\ ExportFinished /\ PersistenceFinished
            /\ notify_calls[1].upsert_result = upsert_result
            /\ notify_calls[1].records_count = Len(all_records))
    /\ (~dry_run /\ pc = "scraped" /\ all_records # <<>>)
          ~> (pc = "done" /\ Len(notify_calls) = 1)

\* a commit run notified of an error of the insert after the export failed
C4_Witness ==
    /\ pc = "done" /\ ~dry_run
    /\ Len(notify_calls) = 1
    /\ notify_calls[1].upsert_result.status = "error"
    /\ "insert" \in Range(store_ops)
    /\ csv_file = "failed"

StripId(row) == [f \in DOMAIN row \ {"id"} |-> row[f]]

C11_FailureKeepsSnapshot ==
    (~dry_run /\ upsert_result.status \in {"skipped", "error"}) => store = prior_snapshot

====
